---- MODULE Spec2Model ----
(***************************************************************************)
(* Configuration-fragment reconciliation of the bodsch.docker collection:  *)
(* compose_files, compose_file, container_environments,                    *)
(* docker_client_configs and docker_common_config.                         *)
(*                                                                         *)
(* A file is modelled by its content, a tuple of strings; a path that does *)
(* not exist holds NoFile.  Every module run is one action; the runs of    *)
(* one module against one directory are collected in `runs`.               *)
(***************************************************************************)
EXTENDS Integers, Sequences, FiniteSets, TLC

VARIABLES
    params,     \* module.params of the invocation
    env,        \* what the host adds: names whose scratch file cannot be written
    files,      \* target files: path -> content, NoFile when the path is missing
    scratch,    \* TRUE while /run/.ansible/<module>.<pid> exists
    runs,       \* results returned by the runs made so far, oldest first
    pc,         \* position inside the reconciliation of one fragment
    tmpfile,    \* content of the scratch file, NoFile when there is none
    local       \* local variables of the fragment handler

vars == <<params, env, files, scratch, runs, pc, tmpfile, local>>

\* ---------------------------------------------------------------- bounds
MaxRuns == 2
MaxEntities == 3
MaxContainers == 2
MaxConfigs == 2
MaxOverrides == 2
MaxFiltered == 3
MaxItems == 2
MaxSubKeys == 2

\* ---------------------------------------------------------------- values
NoFile == <<"ENOENT">>
None == <<"None">>
Foreign == <<"written by someone else">>
Names == {"a", "b"}
Payloads == {"image: p1", "image: p2"}
NoPayload == "-"

RECURSIVE SeqsUpTo(_, _)
SeqsUpTo(S, n) ==
    IF n = 0 THEN {<<>>}
    ELSE LET shorter == SeqsUpTo(S, n - 1)
         IN shorter \cup {Append(s, x) : s \in shorter, x \in S}

UniqueNames(l) == \A i, j \in 1..Len(l) : l[i].name = l[j].name => i = j

\* ---------------------------------------------------------------- Checksum
checksum_from_file(content) ==
    IF content = NoFile THEN None ELSE <<"sha256">> \o content

\* results(): the batch flags are the OR of the per-entity flags
results(result_state) ==
    [changed |-> \E i \in 1..Len(result_state) : result_state[i].changed,
     failed  |-> \E i \in 1..Len(result_state) : result_state[i].failed]

\* ---------------------------------------------------------------- ComposeFile
ComposeTypes == {"networks", "services", "volumes"}

\* create(networks=, services=, volumes=): a key is set only for a non-empty
\* mapping, in this order (no caller passes version)
create(networks, services, volumes) ==
    (IF networks # <<>> THEN <<"networks">> \o networks ELSE <<>>)
        \o (IF services # <<>> THEN <<"services">> \o services ELSE <<>>)
        \o (IF volumes # <<>> THEN <<"volumes">> \o volumes ELSE <<>>)

\* create(**{compose_type: data})
create_kw(compose_type, data) ==
    create(IF compose_type = "networks" THEN data ELSE <<>>,
           IF compose_type = "services" THEN data ELSE <<>>,
           IF compose_type = "volumes" THEN data ELSE <<>>)

\* what yaml.dump leaves in the file
yaml_dump(compose_dict) == <<"yaml">> \o compose_dict

validate_presence_only(tmp_content, target_content) ==
    target_content = NoFile

validate(tmp_content, target_content) ==
    IF target_content = NoFile
    THEN TRUE
    ELSE checksum_from_file(tmp_content) # checksum_from_file(target_content)

\* ---------------------------------------------------------------- compose_files
file_state_absent_always_changed(fs, name) ==
    [files   |-> [fs EXCEPT ![name] = NoFile],
     aborted |-> FALSE,
     rec     |-> [name |-> name, changed |-> TRUE, failed |-> FALSE]]

\* one os.path.exists / os.remove
file_state_absent(fs, name) ==
    [files   |-> [fs EXCEPT ![name] = NoFile],
     aborted |-> FALSE,
     rec     |-> [name |-> name, changed |-> fs[name] # NoFile, failed |-> FALSE]]

\* write the scratch file, compare, move it over the target when it differs;
\* a scratch file that cannot be opened ends the module in fail_json
file_state_present(fs, entity_name, compose_type, data) ==
    LET compose_data == create_kw(compose_type, data)
        tmp_content == yaml_dump(compose_data)
        changed == validate(tmp_content, fs[entity_name])
    IN IF entity_name \in env.badnames
       THEN [files |-> fs, aborted |-> TRUE,
             rec |-> [name |-> entity_name, changed |-> FALSE, failed |-> TRUE]]
       ELSE [files   |-> IF changed THEN [fs EXCEPT ![entity_name] = tmp_content] ELSE fs,
             aborted |-> FALSE,
             rec     |-> [name |-> entity_name, changed |-> changed, failed |-> FALSE]]

RECURSIVE save_entities(_, _, _)
\* st = [files, msg, aborted]; msg is result_state
save_entities(entities, entity_type, st) ==
    IF entities = <<>> \/ st.aborted THEN st
    ELSE LET entity == Head(entities)
             name == entity.name
         IN IF name = ""
            THEN save_entities(Tail(entities), entity_type, st)
            ELSE LET r == IF entity.state = "absent"
                          THEN file_state_absent(st.files, name)
                          ELSE file_state_present(st.files, name, entity_type,
                                                  <<name, entity.payload>>)
                 IN save_entities(Tail(entities), entity_type,
                        [files   |-> r.files,
                         msg     |-> IF r.aborted THEN st.msg ELSE Append(st.msg, r.rec),
                         aborted |-> r.aborted])

EntityResult(st) ==
    [changed |-> results(st.msg).changed, failed |-> results(st.msg).failed, msg |-> st.msg]

\* ModuleComposeFiles.run: the three lists in turn, then the scratch directory goes
ComposeFilesRun(fs, p) ==
    LET n == save_entities(p.networks, "networks", [files |-> fs, msg |-> <<>>, aborted |-> FALSE])
        s == save_entities(p.services, "services", [files |-> n.files, msg |-> <<>>, aborted |-> n.aborted])
        v == save_entities(p.volumes, "volumes", [files |-> s.files, msg |-> <<>>, aborted |-> s.aborted])
    IN [files   |-> v.files,
        scratch |-> v.aborted,
        result  |-> IF v.aborted
                    THEN [changed |-> FALSE, failed |-> TRUE, exited |-> "fail_json",
                          networks |-> EntityResult(n), services |-> EntityResult(s),
                          volumes |-> EntityResult(v)]
                    ELSE [changed |-> EntityResult(n).changed \/ EntityResult(s).changed
                                      \/ EntityResult(v).changed,
                          failed |-> FALSE, exited |-> "exit_json",
                          networks |-> EntityResult(n), services |-> EntityResult(s),
                          volumes |-> EntityResult(v)]]

ComposeEntities ==
    [name : Names, state : {"present"}, payload : Payloads]
        \cup [name : Names, state : {"absent"}, payload : {NoPayload}]
        \cup {[name |-> "", state |-> "present", payload |-> "image: p1"],
              [name |-> "", state |-> "absent", payload |-> NoPayload]}

ComposeLists == {l \in SeqsUpTo(ComposeEntities, MaxEntities) : UniqueNames(l)}

ComposeParams ==
    {p \in [networks : ComposeLists, services : ComposeLists, volumes : ComposeLists] :
        Len(p.networks) + Len(p.services) + Len(p.volumes) <= MaxEntities}

CF_Init ==
    /\ params \in ComposeParams
    /\ files \in [Names \cup {""} -> {NoFile, Foreign}]
    /\ env \in [badnames : {{}} \cup {{n} : n \in Names}, initial : {files}]
    /\ scratch = FALSE
    /\ runs = <<>>
    /\ pc = "batch"
    /\ tmpfile = NoFile
    /\ local = [changed |-> FALSE]

CF_Run ==
    /\ Len(runs) < MaxRuns
    /\ LET r == ComposeFilesRun(files, params)
       IN /\ files' = r.files
          /\ scratch' = r.scratch
          /\ runs' = Append(runs, r.result)
    /\ UNCHANGED <<params, env, pc, tmpfile, local>>

CF_Next == CF_Run

SpecCF == CF_Init /\ [][CF_Next]_vars

\* ======================================================================
\* One fragment, step by step: scratch write, comparison, replacement.
\* params = [module, state, type, data]; files = [target, checksum], the
\* checksum entry being the legacy sidecar of the target.
\* ======================================================================
AWModules == {"compose_files", "compose_file", "container_environments",
              "docker_client_configs", "docker_common_config"}
AWData == {<<>>, <<"k: 1">>, <<"k: 2">>}

\* the modules that replace the target with shutil.move(scratch, target)
UsesMove(m) == m \in {"compose_files", "compose_file", "container_environments"}

\* file_type.strip().lower()
strip_lower(t) ==
    CASE t = " YAML " -> "yaml"
      [] t = "Ini" -> "ini"
      [] OTHER -> t

resolve_writer(file_type) ==
    LET t == strip_lower(file_type)
    IN CASE t \in {"yaml", "yml"} -> "YAMLWriter"
         [] t = "json" -> "JSONWriter"
         [] t = "toml" -> "TOMLWriter"
         [] t = "ini" -> "INIWriter"
         [] OTHER -> "ValueError"

\* Writer.dump: the text depends on the writer and on the data
writer_dump(writer, data) == <<writer>> \o data

\* json.dump(data, indent=2) followed by a newline
write_json(data) == <<"json">> \o data \o <<"\n">>

\* the content the module wants in the target
Serialize(p) ==
    CASE p.module \in {"compose_files", "compose_file"} ->
            yaml_dump(create_kw(p.type, p.data))
      [] p.module = "container_environments" ->
            writer_dump(resolve_writer(p.type), p.data)
      [] OTHER -> write_json(p.data)

\* compose_file._remove_file
remove_file(fs) ==
    [files  |-> [fs EXCEPT !["target"] = NoFile],
     result |-> [changed |-> fs["target"] # NoFile, failed |-> FALSE, exited |-> "exit_json"]]

\* docker_client_configs: _cleanup_checksum_file, then _remove_configuration
remove_configuration(fs) ==
    LET cleaned == [fs EXCEPT !["checksum"] = NoFile]
        config_exists == cleaned["target"] # NoFile
        checksum_exists == cleaned["checksum"] # NoFile
    IN [files  |-> [cleaned EXCEPT !["target"] = NoFile],
        result |-> [changed |-> config_exists \/ checksum_exists, failed |-> FALSE,
                    exited |-> "exit_json"]]

\* docker_common_config.run, state == "absent"
daemon_absent(fs) ==
    [files  |-> [fs EXCEPT !["target"] = NoFile, !["checksum"] = NoFile],
     result |-> [changed |-> TRUE, failed |-> FALSE, exited |-> "exit_json"]]

Remove(m, fs) ==
    CASE m = "compose_files" ->
            LET r == file_state_absent(fs, "target")
            IN [files |-> r.files,
                result |-> [changed |-> r.rec.changed, failed |-> r.rec.failed,
                            exited |-> "exit_json"]]
      [] m = "compose_file" -> remove_file(fs)
      [] m = "docker_client_configs" -> remove_configuration(fs)
      [] OTHER -> daemon_absent(fs)

\* the sidecar handling that precedes the scratch write
CleanSidecar(m, fs) ==
    CASE m \in {"container_environments", "docker_client_configs"} ->
            [fs EXCEPT !["checksum"] = NoFile]
      [] m = "docker_common_config" ->
            IF fs["target"] = NoFile THEN [fs EXCEPT !["checksum"] = NoFile] ELSE fs
      [] OTHER -> fs

\* new_checksum != old_checksum, or ComposeFile.validate for the compose modules
Changed(m, tmp_content, target_content) ==
    IF m \in {"compose_files", "compose_file"}
    THEN validate(tmp_content, target_content)
    ELSE checksum_from_file(tmp_content) # checksum_from_file(target_content)

\* _write_config / _write_properties with nothing to write
EmptyMeansRemove(p) ==
    p.module = "container_environments" /\ p.data = <<>>

AW_Params ==
    {p \in [module : AWModules, state : {"present", "absent", "test"},
            type : ComposeTypes \cup {"yaml", " YAML ", "ini", "json", "xml"},
            data : AWData] :
        /\ p.state = "test" => p.module = "compose_file"
        /\ p.module = "compose_files" => p.type \in {"services", "volumes"} /\ p.data # <<>>
        /\ p.module = "compose_file" => p.type = "services"
        /\ p.module = "container_environments" =>
              p.type \in {"yaml", " YAML ", "ini", "xml"} /\ p.state = "present"
        /\ p.module \in {"docker_client_configs", "docker_common_config"} => p.type = "json"}

AW_Init ==
    /\ params \in AW_Params
    /\ files \in [{"target", "checksum"} ->
                    {NoFile, Foreign} \cup {Serialize([params EXCEPT !.data = d]) : d \in AWData}]
    /\ files["checksum"] \in {NoFile, Foreign}
    /\ params.module \in {"compose_files", "compose_file"} => files["checksum"] = NoFile
    /\ env \in [scratch_writable : BOOLEAN, initial : {files}]
    /\ scratch = FALSE
    /\ runs = <<>>
    /\ pc = "start"
    /\ tmpfile = NoFile
    /\ local = [changed |-> FALSE]

\* state == "absent"
AW_Absent ==
    /\ pc = "start"
    /\ params.state = "absent"
    /\ LET r == Remove(params.module, files)
       IN /\ files' = r.files
          /\ runs' = Append(runs, r.result)
    /\ pc' = "done"
    /\ UNCHANGED <<params, env, scratch, tmpfile, local>>

\* container_environments._write_config with empty data
AW_Empty ==
    /\ pc = "start"
    /\ params.state = "present"
    /\ EmptyMeansRemove(params)
    /\ files' = [CleanSidecar(params.module, files) EXCEPT !["target"] = NoFile]
    /\ runs' = Append(runs, [changed |-> FALSE, failed |-> FALSE, exited |-> "exit_json"])
    /\ pc' = "done"
    /\ UNCHANGED <<params, env, scratch, tmpfile, local>>

\* compose_file.run, state == "test": the initial result is returned
AW_Test ==
    /\ pc = "start"
    /\ params.state = "test"
    /\ runs' = Append(runs, [changed |-> FALSE, failed |-> TRUE, exited |-> "exit_json"])
    /\ pc' = "done"
    /\ UNCHANGED <<params, env, files, scratch, tmpfile, local>>

CanSerialize(p) ==
    /\ env.scratch_writable
    /\ p.module = "container_environments" => resolve_writer(p.type) # "ValueError"

AW_WriteScratch ==
    /\ pc = "start"
    /\ params.state = "present"
    /\ ~EmptyMeansRemove(params)
    /\ CanSerialize(params)
    /\ files' = CleanSidecar(params.module, files)
    /\ scratch' = TRUE
    /\ tmpfile' = Serialize(params)
    /\ pc' = "scratch_written"
    /\ UNCHANGED <<params, env, runs, local>>

\* ComposeFile.write ends in fail_json; elsewhere the exception is not caught
AW_WriteScratchFails ==
    /\ pc = "start"
    /\ params.state = "present"
    /\ ~EmptyMeansRemove(params)
    /\ ~CanSerialize(params)
    /\ files' = CleanSidecar(params.module, files)
    /\ scratch' = TRUE
    /\ runs' = Append(runs, [changed |-> FALSE, failed |-> TRUE,
                             exited |-> IF params.module \in {"compose_files", "compose_file"}
                                        THEN "fail_json" ELSE "exception"])
    /\ pc' = "failed"
    /\ UNCHANGED <<params, env, tmpfile, local>>

AW_Compare ==
    /\ pc = "scratch_written"
    /\ LET changed == Changed(params.module, tmpfile, files["target"])
       IN /\ local' = [changed |-> changed]
          /\ pc' = IF changed THEN "replace" ELSE "cleanup"
    /\ UNCHANGED <<params, env, files, scratch, runs, tmpfile>>

\* shutil.move(scratch, target)
AW_Move ==
    /\ pc = "replace"
    /\ UsesMove(params.module)
    /\ files' = [files EXCEPT !["target"] = tmpfile]
    /\ tmpfile' = NoFile
    /\ pc' = "cleanup"
    /\ UNCHANGED <<params, env, scratch, runs, local>>

\* _write_json / __write_config on the target: open(target, "w") truncates it
AW_OpenTarget ==
    /\ pc = "replace"
    /\ ~UsesMove(params.module)
    /\ files' = [files EXCEPT !["target"] = <<>>]
    /\ pc' = "target_open"
    /\ UNCHANGED <<params, env, scratch, runs, tmpfile, local>>

\* ... and json.dump writes the data into it
AW_WriteTarget ==
    /\ pc = "target_open"
    /\ files' = [files EXCEPT !["target"] = Serialize(params)]
    /\ pc' = "cleanup"
    /\ UNCHANGED <<params, env, scratch, runs, tmpfile, local>>

\* shutil.rmtree(tmp_directory) and the return
AW_Finish ==
    /\ pc = "cleanup"
    /\ scratch' = FALSE
    /\ tmpfile' = NoFile
    /\ runs' = Append(runs, [changed |-> local.changed, failed |-> FALSE,
                             exited |-> "exit_json"])
    /\ pc' = "done"
    /\ UNCHANGED <<params, env, files, local>>

\* the process is killed between two steps
AW_Crash ==
    /\ pc \in {"start", "scratch_written", "replace", "target_open", "cleanup"}
    /\ pc' = "crashed"
    /\ UNCHANGED <<params, env, files, scratch, runs, tmpfile, local>>

AW_Next ==
    \/ AW_Absent
    \/ AW_Empty
    \/ AW_Test
    \/ AW_WriteScratch
    \/ AW_WriteScratchFails
    \/ AW_Compare
    \/ AW_Move
    \/ AW_OpenTarget
    \/ AW_WriteTarget
    \/ AW_Finish
    \/ AW_Crash

SpecAW == AW_Init /\ [][AW_Next]_vars


\* ======================================================================
\* container_environments: one run over the container list.  A file of a
\* container is the path <<container, file name>>, its legacy checksum
\* sidecar <<container, file name, "checksum">>.  The container
\* directories below base_directory are taken to exist.
\* ======================================================================
Header == <<"# generated by ansible">>

\* write_template(file, TPL_ENV | TPL_PROP, data): the header, then one line
\* per item in the layout of the template
write_template(env_kind, data) ==
    Header \o [i \in 1..Len(data) |-> <<env_kind, data[i]>>]

Sidecar(path) == <<path[1], path[2], "checksum">>

write_environments(fs, container_name, environments) ==
    LET data_file == <<container_name, "container.env">>
        fs1 == [fs EXCEPT ![Sidecar(data_file)] = NoFile]
        tmp == write_template("environments", environments)
        changed == checksum_from_file(tmp) # checksum_from_file(fs1[data_file])
    IN [files   |-> IF changed THEN [fs1 EXCEPT ![data_file] = tmp] ELSE fs1,
        changed |-> changed,
        raised  |-> FALSE]

write_properties(fs, container_name, property_filename, properties) ==
    LET data_file == <<container_name, property_filename>>
        fs1 == [fs EXCEPT ![Sidecar(data_file)] = NoFile]
        tmp == write_template("properties", properties)
        changed == checksum_from_file(tmp) # checksum_from_file(fs1[data_file])
    IN IF properties = <<>>
       THEN [files |-> [fs1 EXCEPT ![data_file] = NoFile], changed |-> FALSE, raised |-> FALSE]
       ELSE [files   |-> IF changed THEN [fs1 EXCEPT ![data_file] = tmp] ELSE fs1,
             changed |-> changed,
             raised  |-> FALSE]

write_config(fs, container_name, filename, config_type, data) ==
    LET data_file == <<container_name, filename>>
        fs1 == [fs EXCEPT ![Sidecar(data_file)] = NoFile]
        config_writer == resolve_writer(config_type)
        text == writer_dump(config_writer, data)
        changed == checksum_from_file(text) # checksum_from_file(fs1[data_file])
    IN IF data = <<>>
       THEN [files |-> [fs1 EXCEPT ![data_file] = NoFile], changed |-> FALSE, raised |-> FALSE]
       ELSE IF config_writer = "ValueError"
       THEN [files |-> fs1, changed |-> FALSE, raised |-> TRUE]
       ELSE [files   |-> IF changed THEN [fs1 EXCEPT ![data_file] = text] ELSE fs1,
             changed |-> changed,
             raised  |-> FALSE]

\* f"{name}.properties"
PropertyFilename(name) ==
    CASE name = "a" -> "a.properties"
      [] name = "b" -> "b.properties"
      [] OTHER -> ".properties"

RECURSIVE write_all_properties(_, _, _)
\* for prop in property_files; st = [files, changed, raised]
write_all_properties(st, name, property_files) ==
    IF property_files = <<>> THEN st
    ELSE LET prop == Head(property_files)
             r == write_properties(st.files, name, prop.name, prop.properties)
         IN write_all_properties(
                [files |-> r.files, changed |-> st.changed \/ r.changed, raised |-> FALSE],
                name, Tail(property_files))

RECURSIVE write_all_configs(_, _, _)
\* for cfg in config_files; an unknown type raises and ends the loop
write_all_configs(st, name, config_files) ==
    IF config_files = <<>> \/ st.raised THEN st
    ELSE LET cfg == Head(config_files)
             r == write_config(st.files, name, cfg.name, cfg.type, cfg.data)
         IN write_all_configs(
                [files |-> r.files, changed |-> st.changed \/ r.changed, raised |-> r.raised],
                name, Tail(config_files))

\* the body of "for c in self.container"
container_step(fs, c) ==
    LET defined_properties == c.properties # <<>>
        defined_property_files == c.property_files # <<>>
        defined_config_files == c.config_files # <<>>
        e == write_environments(fs, c.name, c.environments)
        all_property_files ==
            Append(c.property_files,
                   [name |-> PropertyFilename(c.name), properties |-> c.properties])
        p == IF defined_properties \/ defined_property_files
             THEN write_all_properties([files |-> e.files, changed |-> FALSE, raised |-> FALSE],
                                       c.name, all_property_files)
             ELSE [files |-> e.files, changed |-> FALSE, raised |-> FALSE]
        g == IF defined_config_files
             THEN write_all_configs([files |-> p.files, changed |-> FALSE, raised |-> FALSE],
                                    c.name, c.config_files)
             ELSE [files |-> p.files, changed |-> FALSE, raised |-> FALSE]
        p_changed == p.changed \/ g.changed
    IN [files   |-> g.files,
        changed |-> e.changed \/ p_changed,
        raised  |-> g.raised]

RECURSIVE container_loop(_, _)
\* st = [files, msg, recreate, raised]
container_loop(st, containers) ==
    IF containers = <<>> \/ st.raised THEN st
    ELSE LET c == Head(containers)
             \* the bookkeeping after the writes of one container
             record(r) ==
                 [files    |-> r.files,
                  msg      |-> IF r.changed /\ ~r.raised
                               THEN Append(st.msg, [name |-> c.name, changed |-> TRUE,
                                                    failed |-> FALSE])
                               ELSE st.msg,
                  recreate |-> Append(st.recreate, r.changed /\ ~r.raised),
                  raised   |-> r.raised]
         IN container_loop(record(container_step(st.files, c)), Tail(containers))

\* ContainerEnvironments.run
ContainerEnvironmentsRun(fs, p) ==
    LET exit(st) ==
            [files   |-> st.files,
             scratch |-> st.raised,
             result  |-> IF st.raised
                         THEN [changed |-> FALSE, failed |-> TRUE, exited |-> "exception",
                               recreate |-> st.recreate, msg |-> st.msg]
                         ELSE [changed |-> results(st.msg).changed, failed |-> FALSE,
                               exited |-> "exit_json", recreate |-> st.recreate,
                               msg |-> st.msg]]
    IN exit(container_loop([files |-> fs, msg |-> <<>>, recreate |-> <<>>, raised |-> FALSE],
                           p.container))

Mappings == {<<>>, <<"k: 1">>}
OtherMapping == <<"k: 2">>

\* the property_files and config_files a container is given
OptionalFiles(name) ==
    {[property_files |-> <<>>, config_files |-> <<>>],
     [property_files |-> <<[name |-> "x.properties", properties |-> <<"k: 1">>]>>,
      config_files |-> <<[name |-> "app.yml", type |-> "yaml", data |-> <<"k: 1">>]>>],
     [property_files |-> <<[name |-> "x.properties", properties |-> <<>>]>>,
      config_files |-> <<[name |-> "app.yml", type |-> "ini", data |-> <<>>]>>],
     [property_files |-> <<[name |-> PropertyFilename(name), properties |-> OtherMapping]>>,
      config_files |-> <<>>],
     [property_files |-> <<>>,
      config_files |-> <<[name |-> "app.yml", type |-> "xml", data |-> <<"k: 1">>]>>],
     [property_files |-> <<>>,
      config_files |-> <<[name |-> "app.yml", type |-> "xml", data |-> <<>>]>>]}

\* the properties and files of a container entry given without a name
NamelessFiles ==
    {[properties |-> <<>>, property_files |-> <<>>, config_files |-> <<>>],
     [properties |-> <<"k: 1">>,
      property_files |-> <<[name |-> "x.properties", properties |-> <<"k: 1">>]>>,
      config_files |-> <<[name |-> "app.yml", type |-> "yaml", data |-> <<"k: 1">>]>>]}

Containers ==
    UNION {{[name |-> n, environments |-> e, properties |-> q,
             property_files |-> o.property_files, config_files |-> o.config_files] :
                e \in Mappings, q \in Mappings, o \in OptionalFiles(n)} : n \in Names}
    \cup {[name |-> "", environments |-> e, properties |-> o.properties,
            property_files |-> o.property_files, config_files |-> o.config_files] :
                e \in Mappings, o \in NamelessFiles}

ContainerLists ==
    {l \in SeqsUpTo(Containers, MaxContainers) : UniqueNames(l)}

CE_FileNames(n) == {"container.env", PropertyFilename(n), "x.properties", "app.yml"}
CE_DataPaths == UNION {{<<n, f>> : f \in CE_FileNames(n)} : n \in Names \cup {""}}
CE_Paths == CE_DataPaths \cup {Sidecar(path) : path \in CE_DataPaths}

\* what a directory can hold before the first run: per kind of file, the same
\* for every container
CE_InitialFiles ==
    {[path \in CE_Paths |->
        IF Len(path) = 3 THEN sidecar
        ELSE IF path[2] = "container.env" THEN e
        ELSE IF path[2] = "app.yml" THEN y
        ELSE q] :
        sidecar \in {NoFile, Foreign}, e \in {NoFile, Foreign, write_template("environments", <<>>)},
        y \in {NoFile, Foreign}, q \in {NoFile, Foreign}}

CE_Init ==
    /\ params \in [container : ContainerLists]
    /\ files \in CE_InitialFiles
    /\ env = [initial |-> files]
    /\ scratch = FALSE
    /\ runs = <<>>
    /\ pc = "batch"
    /\ tmpfile = NoFile
    /\ local = [changed |-> FALSE]

CE_Run ==
    /\ Len(runs) < MaxRuns
    /\ \E r \in {ContainerEnvironmentsRun(files, params)} :
          /\ files' = r.files
          /\ scratch' = r.scratch
          /\ runs' = Append(runs, r.result)
    /\ UNCHANGED <<params, env, pc, tmpfile, local>>

CE_Next == CE_Run

SpecCE == CE_Init /\ [][CE_Next]_vars

\* ======================================================================
\* docker_client_configs: every configuration of one run, in order.
\* params = [configs]; files maps <<location>> and the checksum file
\* <<location, "checksum">> of the cache directory to their content.
\* ======================================================================
Missing == "<missing>"

\* the truth value Python gives data.get(key)
Truthy(v) == v \notin {Missing, ""}

validate_auth(data) ==
    LET auth == Truthy(data.auth)
        username == Truthy(data.username)
        password == Truthy(data.password)
    IN IF ~auth /\ ~(username \/ password)
       THEN [valid |-> TRUE, msg |-> "No authentication defined."]
       ELSE IF auth /\ ~(username \/ password)
       THEN [valid |-> TRUE, msg |-> "Base64 authentication defined."]
       ELSE IF auth /\ (username /\ password)
       THEN [valid |-> FALSE,
             msg |-> "Define either 'auth' or 'username/password', not both."]
       ELSE IF ~auth /\ (~username \/ ~password)
       THEN [valid |-> FALSE, msg |-> "Both 'username' and 'password' must be set."]
       ELSE [valid |-> TRUE, msg |-> "Username/password authentication defined."]

\* base64.standard_b64encode(f"{username}:{password}".encode("utf-8"))
standard_b64encode(username, password) ==
    CASE username = "u" /\ password = "p" -> "dTpw"
      [] username = "u" /\ password = ""  -> "dTo="
      [] username = ""  /\ password = "p" -> "OnA="
      [] OTHER -> "Og=="

\* "auth" in data decides; data['username'] of a missing key raises KeyError
encode_auth(data) ==
    IF data.auth # Missing THEN data.auth
    ELSE IF data.username = Missing \/ data.password = Missing THEN "KeyError"
    ELSE standard_b64encode(data.username, data.password)

\* auths is the sequence of the items of the dictionary: [registry, creds]
handle_authentications(auths) ==
    LET Valid(i) == validate_auth(auths[i].creds).valid
        invalid_at == SelectSeq([i \in 1..Len(auths) |-> i], LAMBDA i : ~Valid(i))
        valid_at == SelectSeq([i \in 1..Len(auths) |-> i], LAMBDA i : Valid(i))
    IN [invalid |-> [k \in 1..Len(invalid_at) |->
                        [registry |-> auths[invalid_at[k]].registry, failed |-> TRUE,
                         state |-> validate_auth(auths[invalid_at[k]].creds).msg]],
        valid_auths |-> [k \in 1..Len(valid_at) |->
                            [registry |-> auths[valid_at[k]].registry,
                             auth |-> encode_auth(auths[valid_at[k]].creds)]],
        raised |-> \E i \in 1..Len(auths) :
                       Valid(i) /\ encode_auth(auths[i].creds) = "KeyError"]

\* f"{section}Format" -> "table " + the fields; a section without fields is left out
handle_formats(formats) ==
    LET kept == SelectSeq(formats, LAMBDA f : f.fields # <<>>)
    IN [k \in 1..Len(kept) |->
            [key |-> IF kept[k].section = "ps" THEN "psFormat" ELSE "imagesFormat",
             value |-> <<"table">> \o kept[k].fields]]

ChecksumFile(destination) == <<destination, "checksum">>

cleanup_checksum_file(fs, destination) ==
    [fs EXCEPT ![ChecksumFile(destination)] = NoFile]

remove_client_configuration(fs, destination) ==
    LET config_exists == fs[<<destination>>] # NoFile
        checksum_exists == fs[ChecksumFile(destination)] # NoFile
        removed == [fs EXCEPT ![<<destination>>] = NoFile,
                              ![ChecksumFile(destination)] = NoFile]
    IN [files |-> removed, ended |-> "return",
        rec |-> [location |-> destination, changed |-> config_exists \/ checksum_exists,
                 failed |-> FALSE]]

\* DockerClientConfigs.client; ended is "return", "fail_json" or "exception"
client(fs, client_data) ==
    LET destination == client_data.location
        cleaned == cleanup_checksum_file(fs, destination)
        unchanged(failed) ==
            [files |-> cleaned, ended |-> "return",
             rec |-> [location |-> destination, changed |-> FALSE, failed |-> failed]]
        write(a, formats_cfg) ==
            IF a.raised
            THEN [files |-> cleaned, ended |-> "exception",
                  rec |-> [location |-> destination, changed |-> FALSE, failed |-> TRUE]]
            ELSE IF a.invalid # <<>> THEN unchanged(TRUE)
            ELSE LET tmp_file == write_json(<<"auths", a.valid_auths>> \o formats_cfg)
                     changed == checksum_from_file(tmp_file)
                                    # checksum_from_file(cleaned[<<destination>>])
                 IN [files |-> IF changed
                               THEN [cleaned EXCEPT ![<<destination>>] = tmp_file]
                               ELSE cleaned,
                     ended |-> "return",
                     rec |-> [location |-> destination, changed |-> changed,
                              failed |-> FALSE]]
    IN IF client_data.state \notin {"present", "absent"}
       THEN [files |-> fs, ended |-> "fail_json",
             rec |-> [location |-> destination, changed |-> FALSE, failed |-> TRUE]]
       ELSE IF client_data.state = "absent"
       THEN remove_client_configuration(cleaned, destination)
       ELSE IF ~client_data.enabled THEN unchanged(FALSE)
       ELSE write(handle_authentications(client_data.auths),
                  handle_formats(client_data.formats))

RECURSIVE client_loop(_, _)
\* for conf in self.configs; st = [files, msg, ended]
client_loop(st, configs) ==
    IF configs = <<>> \/ st.ended # "return" THEN st
    ELSE LET conf == Head(configs)
             record(r) ==
                 [files |-> r.files,
                  msg   |-> IF r.ended = "return" THEN Append(st.msg, r.rec) ELSE st.msg,
                  ended |-> r.ended]
         IN IF conf.location = ""
            THEN client_loop(st, Tail(configs))
            ELSE client_loop(record(client(st.files, conf)), Tail(configs))

DockerClientConfigsRun_never_failed(fs, p) ==
    LET exit(st) ==
            [files   |-> st.files,
             scratch |-> st.ended # "return",
             result  |-> IF st.ended = "return"
                         THEN [changed |-> results(st.msg).changed, failed |-> FALSE,
                               exited |-> "exit_json", msg |-> st.msg]
                         ELSE [changed |-> FALSE, failed |-> TRUE, exited |-> st.ended,
                               msg |-> st.msg]]
    IN exit(client_loop([files |-> fs, msg |-> <<>>, ended |-> "return"], p.configs))

\* DockerClientConfigs.run
DockerClientConfigsRun(fs, p) ==
    LET exit(st) ==
            [files   |-> st.files,
             scratch |-> st.ended # "return",
             result  |-> IF st.ended = "return"
                         THEN [changed |-> results(st.msg).changed,
                               failed |-> results(st.msg).failed,
                               exited |-> "exit_json", msg |-> st.msg]
                         ELSE [changed |-> FALSE, failed |-> TRUE, exited |-> st.ended,
                               msg |-> st.msg]]
    IN exit(client_loop([files |-> fs, msg |-> <<>>, ended |-> "return"], p.configs))

Locations == {"l1", "l2"}

Credentials ==
    [auth : {Missing, "", "QQ=="}, username : {Missing, "u"}, password : {Missing, "p"}]
        \cup {[auth |-> Missing, username |-> "", password |-> ""],
              [auth |-> "", username |-> "u", password |-> "p"]}

UserPassword == [auth |-> Missing, username |-> "u", password |-> "p"]
UserOnly == [auth |-> Missing, username |-> "u", password |-> Missing]

\* the auths and formats of a configuration
ClientSettings ==
    {[auths |-> <<>>, formats |-> f] :
        f \in {<<>>, <<[section |-> "ps", fields |-> <<".ID">>]>>,
               <<[section |-> "ps", fields |-> <<>>]>>}}
    \cup {[auths |-> <<[registry |-> "r1", creds |-> c]>>, formats |-> <<>>] :
            c \in Credentials}
    \cup {[auths |-> <<[registry |-> "r1", creds |-> UserPassword],
                       [registry |-> "r2", creds |-> UserOnly]>>, formats |-> <<>>],
          [auths |-> <<[registry |-> "r1", creds |-> UserOnly],
                       [registry |-> "r2", creds |-> UserPassword]>>, formats |-> <<>>]}

ClientConfigs ==
    UNION {{[location |-> l, state |-> "present", enabled |-> TRUE,
             auths |-> c.auths, formats |-> c.formats] : c \in ClientSettings}
           \cup {[location |-> l, state |-> "present", enabled |-> FALSE,
                  auths |-> <<[registry |-> "r1", creds |-> UserOnly]>>, formats |-> <<>>],
                 [location |-> l, state |-> "absent", enabled |-> TRUE,
                  auths |-> <<>>, formats |-> <<>>],
                 [location |-> l, state |-> "latest", enabled |-> TRUE,
                  auths |-> <<>>, formats |-> <<>>]} : l \in Locations}
    \cup {[location |-> "", state |-> "present", enabled |-> TRUE,
           auths |-> <<[registry |-> "r1", creds |-> UserPassword]>>, formats |-> <<>>]}

ClientConfigLists == SeqsUpTo(ClientConfigs, MaxConfigs)

DC_Paths ==
    {<<l>> : l \in Locations \cup {""}} \cup {ChecksumFile(l) : l \in Locations \cup {""}}

DC_InitialFiles ==
    {[path \in DC_Paths |->
        IF Len(path) = 2 THEN sidecar ELSE IF path[1] = "l1" THEN first ELSE second] :
        sidecar \in {NoFile, Foreign}, first \in {NoFile, Foreign}, second \in {NoFile, Foreign}}

DC_Init ==
    /\ params \in [configs : ClientConfigLists]
    /\ files \in DC_InitialFiles
    /\ env = [initial |-> files]
    /\ scratch = FALSE
    /\ runs = <<>>
    /\ pc = "batch"
    /\ tmpfile = NoFile
    /\ local = [changed |-> FALSE]

DC_Run ==
    /\ Len(runs) < MaxRuns
    /\ \E r \in {DockerClientConfigsRun(files, params)} :
          /\ files' = r.files
          /\ scratch' = r.scratch
          /\ runs' = Append(runs, r.result)
    /\ UNCHANGED <<params, env, pc, tmpfile, local>>

DC_Next == DC_Run

SpecDC == DC_Init /\ [][DC_Next]_vars

\* ======================================================================
\* The three batch modules side by side: a run of compose_files, of
\* container_environments or of docker_client_configs, told apart by the
\* parameters the module was called with.
\* ======================================================================
Batch_Init == CF_Init \/ CE_Init \/ DC_Init

Batch_ComposeFiles == "networks" \in DOMAIN params /\ CF_Run

Batch_ContainerEnvironments == "container" \in DOMAIN params /\ CE_Run

Batch_DockerClientConfigs == "configs" \in DOMAIN params /\ DC_Run

Batch_Next ==
    \/ Batch_ComposeFiles
    \/ Batch_ContainerEnvironments
    \/ Batch_DockerClientConfigs

SpecBatch == Batch_Init /\ [][Batch_Next]_vars

\* ======================================================================
\* The registry filters: registry_migrate and combine_registries, each in
\* its two implementations (FilterModule of registry.py / container.py and
\* RegistryFilters of container_pkg).  A mapping is a function from its keys
\* to values; a value is a tagged tuple: <<"none">>, <<"str", s>>,
\* <<"bool", b>>, <<"int", n>>, <<"list", items...>>, <<"dict">>.
\* params = [filter, impl, data, defaults, version]; data is
\* [kind, value, entries]: a single mapping (kind "dict", value) or a list of
\* mappings (kind "list", entries).
\* ======================================================================
PyNone == <<"none">>
Str(s) == <<"str", s>>

\* bool(v) is False
Falsy(v) ==
    v \in {PyNone, Str(""), <<"bool", "False">>, <<"int", "0">>, <<"list">>, <<"dict">>}

\* v in (None, "", False): == makes 0 equal to False
InNoneEmptyFalse(v) ==
    v \in {PyNone, Str(""), <<"bool", "False">>, <<"int", "0">>}

\* {**base, **override}
Merged(base, override) ==
    [k \in DOMAIN base \cup DOMAIN override |->
        IF k \in DOMAIN override THEN override[k] ELSE base[k]]

\* {k: v for k, v in merged.items() if v}
Cleaned(merged) ==
    [k \in {x \in DOMAIN merged : ~Falsy(merged[x])} |-> merged[k]]

\* result.pop(key, None)
Popped(m, key) == [k \in DOMAIN m \ {key} |-> m[k]]

\* data.get(key): None for a missing key
Get(m, key) == IF key \in DOMAIN m THEN m[key] ELSE PyNone

\* packaging.version.Version(v): the release tuple, or InvalidVersion
Version(v) ==
    CASE v = "2.9" -> <<2, 9>>
      [] v = "3.0" -> <<3, 0>>
      [] v = "3.1" -> <<3, 1>>
      [] v = "10.0" -> <<10, 0>>
      [] OTHER -> <<"InvalidVersion">>

\* op.ge on two release tuples
VersionGe(a, b) == a[1] > b[1] \/ (a[1] = b[1] /\ a[2] >= b[2])

\* registry.py: only KeyError is caught, InvalidVersion leaves the filter
FilterModule_version_compare(ver1, ver2) ==
    IF Version(ver1) = <<"InvalidVersion">> \/ Version(ver2) = <<"InvalidVersion">>
    THEN "InvalidVersion"
    ELSE IF VersionGe(Version(ver1), Version(ver2)) THEN "True" ELSE "False"

\* registry_filters.py: every exception gives False
RegistryFilters_version_compare(ver1, ver2) ==
    IF Version(ver1) = <<"InvalidVersion">> \/ Version(ver2) = <<"InvalidVersion">>
    THEN "False"
    ELSE IF VersionGe(Version(ver1), Version(ver2)) THEN "True" ELSE "False"

\* the body both implementations run once the version is >= 3.0
migrate(data) ==
    LET redis_addr == Get(data, "addr")
        redis_addrs == Get(data, "addrs")
        popped == IF ~Falsy(redis_addr) THEN Popped(data, "addr") ELSE data
    IN IF ~Falsy(redis_addr) /\ Falsy(redis_addrs)
       THEN Merged(popped, [k \in {"addrs"} |-> <<"list", redis_addr[2]>>])
       ELSE popped

FilterModule_registry_migrate(data, version) ==
    IF version = "" THEN [exited |-> "return", value |-> data]
    ELSE IF FilterModule_version_compare(version, "3.0") = "InvalidVersion"
    THEN [exited |-> "InvalidVersion", value |-> data]
    ELSE IF FilterModule_version_compare(version, "3.0") = "True"
    THEN [exited |-> "return", value |-> migrate(data)]
    ELSE [exited |-> "return", value |-> data]

RegistryFilters_registry_migrate_above(data, version) ==
    IF version # "" /\ RegistryFilters_version_compare(version, "3.0") = "True"
          /\ version # "3.0"
    THEN [exited |-> "return", value |-> migrate(data)]
    ELSE [exited |-> "return", value |-> data]

RegistryFilters_registry_migrate(data, version) ==
    IF version # "" /\ RegistryFilters_version_compare(version, "3.0") = "True"
    THEN [exited |-> "return", value |-> migrate(data)]
    ELSE [exited |-> "return", value |-> data]

\* ContainerBase._safe_merge
safe_merge(base, override) ==
    LET merged == Merged(base, override)
    IN [k \in {x \in DOMAIN merged : ~InNoneEmptyFalse(merged[x])} |-> merged[k]]

RECURSIVE FilterModule_combine_list(_, _, _)
\* for e in _data: _default.update(e) keeps what earlier entries set
FilterModule_combine_list(default, data, result) ==
    IF data = <<>> THEN result
    ELSE FilterModule_combine_list(Merged(default, Head(data)), Tail(data),
                                   Append(result, Cleaned(Merged(default, Head(data)))))

\* container.py
FilterModule_combine_registries(data, defaults) ==
    IF defaults = <<>> THEN [exited |-> "IndexError", value |-> <<>>]
    ELSE IF data.kind = "dict"
    THEN [exited |-> "return", value |-> <<Cleaned(Merged(defaults[1], data.value))>>]
    ELSE [exited |-> "return",
          value |-> FilterModule_combine_list(defaults[1], data.entries, <<>>)]

\* registry_filters.py: the comprehension over data runs first (over the keys
\* of a dict, over the entries of a list), then the merges are appended
RegistryFilters_combine_registries(data, defaults) ==
    LET empty == IF data.kind = "dict" THEN DOMAIN data.value = {} ELSE data.entries = <<>>
    IN IF ~empty /\ defaults = <<>> THEN [exited |-> "IndexError", value |-> <<>>]
       ELSE IF ~empty /\ data.kind = "dict"
       THEN [exited |-> "TypeError", value |-> <<>>]
       ELSE IF defaults = <<>> THEN [exited |-> "AnsibleFilterError", value |-> <<>>]
       ELSE IF data.kind = "dict"
       THEN [exited |-> "return", value |-> <<Cleaned(Merged(defaults[1], data.value))>>]
       ELSE [exited |-> "return",
             value |-> [i \in 1..Len(data.entries) |->
                           safe_merge(defaults[1], data.entries[i])]
                       \o [i \in 1..Len(data.entries) |->
                              Cleaned(Merged(defaults[1], data.entries[i]))]]

FilterImpls == {"FilterModule", "RegistryFilters"}

registry_migrate(impl, data, version) ==
    IF impl = "FilterModule" THEN FilterModule_registry_migrate(data.value, version)
    ELSE RegistryFilters_registry_migrate(data.value, version)

combine_registries(impl, data, defaults) ==
    IF impl = "FilterModule" THEN FilterModule_combine_registries(data, defaults)
    ELSE RegistryFilters_combine_registries(data, defaults)

\* a mapping given by the keys it has, out of a full assignment
Restrict(m, keys) == [k \in keys |-> m[k]]

Versions == {"", "2.9", "3.0", "3.1", "10.0", "latest"}

RedisConfigs ==
    {Restrict([addr |-> a, addrs |-> l, db |-> <<"int", "0">>], keys) :
        a \in {Str(""), Str("redis:6379")},
        l \in {<<"list">>, <<"list", "cache:6379">>},
        keys \in SUBSET {"addr", "addrs", "db"}}

RegistryDefaults ==
    [addr |-> PyNone, timeout |-> <<"int", "30">>, tls |-> <<"bool", "False">>]

Overrides ==
    {Restrict([addr |-> a, pool |-> <<"dict">>, addrs |-> <<"list">>], keys) :
        a \in {Str(""), Str("redis:6379"), Str("cache:6379")},
        keys \in {{}, {"addr"}, {"pool"}, {"addr", "addrs"}}}

EmptyMapping == Restrict(RegistryDefaults, {})

CombineData ==
    {[kind |-> "dict", value |-> o, entries |-> <<>>] : o \in Overrides}
        \cup {[kind |-> "list", value |-> EmptyMapping, entries |-> l] :
                 l \in SeqsUpTo(Overrides, MaxOverrides)}

RF_Params ==
    {[filter |-> "registry_migrate", impl |-> i,
      data |-> [kind |-> "dict", value |-> d, entries |-> <<>>], defaults |-> <<>>,
      version |-> v] : i \in FilterImpls, d \in RedisConfigs, v \in Versions}
    \cup {[filter |-> "combine_registries", impl |-> i, data |-> d, defaults |-> f,
           version |-> ""] :
             i \in FilterImpls, d \in CombineData, f \in {<<>>, <<RegistryDefaults>>}}

RF_Init ==
    /\ params \in RF_Params
    /\ env = [initial |-> <<>>]
    /\ files = <<>>
    /\ scratch = FALSE
    /\ runs = <<>>
    /\ pc = "filter"
    /\ tmpfile = NoFile
    /\ local = [changed |-> FALSE]

RF_RegistryMigrate ==
    /\ params.filter = "registry_migrate"
    /\ runs = <<>>
    /\ runs' = <<registry_migrate(params.impl, params.data, params.version)>>
    /\ UNCHANGED <<params, env, files, scratch, pc, tmpfile, local>>

RF_CombineRegistries ==
    /\ params.filter = "combine_registries"
    /\ runs = <<>>
    /\ runs' = <<combine_registries(params.impl, params.data, params.defaults)>>
    /\ UNCHANGED <<params, env, files, scratch, pc, tmpfile, local>>

RF_Next == RF_RegistryMigrate \/ RF_CombineRegistries

SpecRF == RF_Init /\ [][RF_Next]_vars

\* ======================================================================
\* docker_plugins: one plugin alias on a Docker engine.
\* params = [state, plugin_version]; files = [plugins, info]: plugins gives
\* for each version of the alias "none", "disabled" or "enabled", info is
\* the version recorded in the plugin information file ("" when absent).
\* env = what the engine answers: docker_running, install_ok (the registry
\* delivers the plugin), in_data_root (the plugin's config.json lies under
\* data_root), first (the version plugins.list() names first),
\* redundant_raises (disabling a disabled plugin is an APIError).
\* ======================================================================
PluginVersions == {"1", "2"}

\* plugin.disable(force=True)
plugin_disable(plugins, v, e) ==
    IF plugins[v] = "enabled"
    THEN [plugins |-> [plugins EXCEPT ![v] = "disabled"], raised |-> FALSE]
    ELSE [plugins |-> plugins, raised |-> plugins[v] = "none" \/ e.redundant_raises]

\* plugin.enable(timeout=10); an APIError is logged and passed over
plugin_enable(plugins, v) ==
    IF plugins[v] = "disabled" THEN [plugins EXCEPT ![v] = "enabled"] ELSE plugins

\* DockerPlugins.check_plugin: the first listed plugin of the alias
check_plugin(engine, p, e) ==
    LET listed == {v \in PluginVersions : engine.plugins[v] # "none"}
        name == IF listed = {} THEN ""
                ELSE IF e.first \in listed THEN e.first
                ELSE CHOOSE v \in listed : TRUE
        equal == name = p.plugin_version
    IN [installed |-> name # "",
        name      |-> name,
        equal     |-> equal,
        engine    |-> IF equal THEN [engine EXCEPT !.info = name] ELSE engine]

\* DockerPlugins.uninstall_plugin
uninstall_plugin(engine, chk, e) ==
    LET removal(d) ==
            IF d.raised
            THEN [engine |-> engine,
                  result |-> [changed |-> FALSE, failed |-> TRUE, exited |-> "exit_json"]]
            ELSE [engine |-> [plugins |-> [d.plugins EXCEPT ![chk.name] = "none"],
                              info |-> ""],
                  result |-> [changed |-> TRUE, failed |-> FALSE, exited |-> "exit_json"]]
    IN IF chk.installed
       THEN removal(plugin_disable(engine.plugins, chk.name, e))
       ELSE [engine |-> engine,
             result |-> [changed |-> FALSE, failed |-> FALSE, exited |-> "exit_json"]]

\* DockerPlugins.install_plugin
install_plugin(engine, p, e, chk) ==
    LET reenable(eng) ==
            [engine |-> [eng EXCEPT !.plugins = plugin_enable(eng.plugins, p.plugin_version)],
             result |-> [changed |-> TRUE, failed |-> FALSE, exited |-> "exit_json"]]
        install(eng) ==
            IF eng.plugins[p.plugin_version] # "none"
            THEN reenable(IF e.in_data_root THEN eng
                          ELSE uninstall_plugin(eng, chk, e).engine)
            ELSE IF e.install_ok
            THEN [engine |-> [eng EXCEPT !.plugins[p.plugin_version] = "enabled"],
                  result |-> [changed |-> TRUE, failed |-> FALSE, exited |-> "exit_json"]]
            ELSE [engine |-> eng,
                  result |-> [changed |-> FALSE, failed |-> TRUE, exited |-> "exit_json"]]
    IN install(IF ~chk.equal /\ chk.installed
               THEN [engine EXCEPT !.plugins = plugin_disable(engine.plugins, chk.name, e).plugins]
               ELSE engine)

\* DockerPlugins.run
DockerPluginsRun(engine, p, e) ==
    LET dispatch(chk) ==
            CASE p.state = "test" ->
                    [engine |-> chk.engine,
                     result |-> [changed |-> FALSE, failed |-> FALSE, exited |-> "exit_json"]]
              [] p.state = "absent" -> uninstall_plugin(chk.engine, chk, e)
              [] OTHER -> install_plugin(chk.engine, p, e, chk)
    IN IF ~e.docker_running
       THEN [engine |-> engine,
             result |-> [changed |-> FALSE, failed |-> TRUE, exited |-> "exit_json"]]
       ELSE dispatch(check_plugin(engine, p, e))

DP_Init ==
    /\ params \in [state : {"present", "absent", "test"}, plugin_version : PluginVersions]
    /\ files \in [plugins : [PluginVersions -> {"none", "disabled", "enabled"}],
                  info : {""} \cup PluginVersions]
    /\ env \in [docker_running : BOOLEAN, install_ok : BOOLEAN, in_data_root : BOOLEAN,
                first : PluginVersions, redundant_raises : BOOLEAN, initial : {files}]
    /\ scratch = FALSE
    /\ runs = <<>>
    /\ pc = "plugins"
    /\ tmpfile = NoFile
    /\ local = [changed |-> FALSE]

DP_Run ==
    /\ Len(runs) < MaxRuns
    /\ \E r \in {DockerPluginsRun(files, params, env)} :
          /\ files' = r.engine
          /\ runs' = Append(runs, r.result)
    /\ UNCHANGED <<params, env, scratch, pc, tmpfile, local>>

DP_Next == DP_Run

SpecDP == DP_Init /\ [][DP_Next]_vars

\* ======================================================================
\* container_filter_by, in both implementations (filter/container.py and
\* filter/container_pkg/container_filters.py).
\* params = [impl, data, filter_by, filter_values]; a container is
\* [name, hostname, image], Missing standing for a key it does not have
\* (entry.get(key) is then None, which no list of values contains).
\* ======================================================================
RECURSIVE list_remove(_, _)
\* list.remove(entry): drops the first element equal to entry
list_remove(data, entry) ==
    IF data = <<>> THEN <<>>
    ELSE IF Head(data) = entry THEN Tail(data)
    ELSE <<Head(data)>> \o list_remove(Tail(data), entry)

\* entry.get(filter_by) not in filter_values
FilteredOut(entry, filter_by, filter_values) ==
    entry[filter_by] = Missing \/ entry[filter_by] \notin filter_values

RECURSIVE filter_by_in_place(_, _, _, _)
filter_by_in_place(data, i, filter_by, filter_values) ==
    IF i > Len(data) THEN data
    ELSE IF FilteredOut(data[i], filter_by, filter_values)
    THEN filter_by_in_place(list_remove(data, data[i]), i + 1, filter_by, filter_values)
    ELSE filter_by_in_place(data, i + 1, filter_by, filter_values)

RECURSIVE filter_by_loop(_, _, _, _)
\* for entry in d: ... data.remove(entry), d being the copy of data
filter_by_loop(data, d, filter_by, filter_values) ==
    IF d = <<>> THEN data
    ELSE IF FilteredOut(Head(d), filter_by, filter_values)
    THEN filter_by_loop(list_remove(data, Head(d)), Tail(d), filter_by, filter_values)
    ELSE filter_by_loop(data, Tail(d), filter_by, filter_values)

\* filter/container.py
FilterModule_container_filter_by(data, filter_by, filter_values) ==
    IF filter_by \notin {"name", "hostname", "image"} THEN data
    ELSE filter_by_loop(data, data, filter_by, filter_values)

ContainerFilters_container_filter_by_in_place(data, filter_by, filter_values) ==
    IF filter_by \notin {"name", "hostname", "image"} THEN data
    ELSE filter_by_in_place(data, 1, filter_by, filter_values)

\* filter/container_pkg/container_filters.py
ContainerFilters_container_filter_by(data, filter_by, filter_values) ==
    IF filter_by \notin {"name", "hostname", "image"} THEN data
    ELSE filter_by_loop(data, data, filter_by, filter_values)

container_filter_by(impl, data, filter_by, filter_values) ==
    IF impl = "FilterModule"
    THEN FilterModule_container_filter_by(data, filter_by, filter_values)
    ELSE ContainerFilters_container_filter_by(data, filter_by, filter_values)

FilterByImpls == {"FilterModule", "ContainerFilters"}

FilterContainers ==
    [name : {"busybox-1", "busybox-2"}, hostname : {Missing, "h1"},
     image : {"busybox:latest", "nginx:latest"}, state : {"present"}]

FilterKeys == {"name", "hostname", "image", "state"}

FilterValues ==
    {{}, {"busybox-2"}, {"busybox-1", "h1", "nginx:latest"}, {"present"}}

FB_Init ==
    /\ params \in [impl : FilterByImpls, data : SeqsUpTo(FilterContainers, MaxFiltered),
                   filter_by : FilterKeys, filter_values : FilterValues]
    /\ files = <<>>
    /\ env = [initial |-> <<>>]
    /\ scratch = FALSE
    /\ runs = <<>>
    /\ pc = "filter_by"
    /\ tmpfile = NoFile
    /\ local = [changed |-> FALSE]

FB_ContainerFilterBy ==
    /\ pc = "filter_by"
    /\ runs = <<>>
    /\ runs' = <<[exited |-> "return",
                  value |-> container_filter_by(params.impl, params.data,
                                                params.filter_by, params.filter_values)]>>
    /\ UNCHANGED <<params, env, files, scratch, pc, tmpfile, local>>

FB_Next == FB_ContainerFilterBy

SpecFB == FB_Init /\ [][FB_Next]_vars

\* ======================================================================
\* INIWriter.dump. params = [kind, text, items]: the data is a string (text)
\* or a mapping, given as the sequence of its items [key, mapping, value,
\* sub] in dictionary order; a value is a tagged tuple, sub the items of a
\* value that is itself a mapping.
\* ======================================================================
RECURSIVE Join(_, _)
\* sep.join(parts)
Join(parts, sep) ==
    IF parts = <<>> THEN ""
    ELSE IF Len(parts) = 1 THEN parts[1]
    ELSE parts[1] \o sep \o Join(Tail(parts), sep)

\* json.dumps(value, ensure_ascii=False) of a list of integers or of a
\* mapping with one string entry
json_dumps(value) ==
    IF value[1] = "list" THEN "[" \o Join(Tail(value), ", ") \o "]"
    ELSE "{\"" \o value[2] \o "\": \"" \o value[3] \o "\"}"

\* INIWriter._to_str
to_str(value) ==
    CASE value[1] = "bool" -> IF value[2] = "True" THEN "true" ELSE "false"
      [] value[1] = "none" -> ""
      [] value[1] \in {"str", "int"} -> value[2]
      [] OTHER -> json_dumps(value)

\* ConfigParser.optionxform: optionstr.lower()
optionxform(key) ==
    CASE key = "Host" -> "host"
      [] OTHER -> key

\* BasicInterpolation.before_set: a '%' that starts neither '%%' nor '%('
\* is "invalid interpolation syntax"
InvalidInterpolation(text) == text \in {"a%b"}

\* cp[section][key] = value on the options of one section
set_option(options, key, value) ==
    LET k == optionxform(key)
    IN IF \E i \in 1..Len(options) : options[i].key = k
       THEN [i \in 1..Len(options) |->
                IF options[i].key = k THEN [key |-> k, value |-> value] ELSE options[i]]
       ELSE Append(options, [key |-> k, value |-> value])

RECURSIVE set_options(_, _)
\* st = [options, exited]; items = the (key, value) pairs to set, in order
set_options(st, items) ==
    IF items = <<>> \/ st.exited # "return" THEN st
    ELSE IF InvalidInterpolation(to_str(Head(items).value))
    THEN [st EXCEPT !.exited = "ValueError"]
    ELSE set_options([st EXCEPT !.options =
                          set_option(st.options, Head(items).key, to_str(Head(items).value))],
                     Tail(items))

\* ConfigParser.write for one section
section_text(section) ==
    "[" \o section.name \o "]\n"
        \o Join([i \in 1..Len(section.options) |->
                    section.options[i].key \o " = " \o section.options[i].value \o "\n"], "")
        \o "\n"

RECURSIVE ini_loop(_, _)
\* for key, value in data.items(); st = [sections, default_values, exited]
ini_loop(st, items) ==
    IF items = <<>> \/ st.exited # "return" THEN st
    ELSE LET item == Head(items)
             section(o) ==
                 [st EXCEPT !.sections = Append(st.sections,
                                                [name |-> item.key, options |-> o.options]),
                            !.exited = o.exited]
         IN IF item.mapping
            THEN IF item.key = "DEFAULT"
                 THEN [st EXCEPT !.exited = "ValueError"]
                 ELSE ini_loop(section(set_options([options |-> <<>>, exited |-> "return"],
                                                   item.sub)),
                               Tail(items))
            ELSE ini_loop([st EXCEPT !.default_values =
                               Append(st.default_values,
                                      [key |-> item.key, value |-> item.value])],
                          Tail(items))

\* INIWriter.dump
INIWriter_dump(p) ==
    LET failed == [exited |-> "ValueError", sections |-> <<>>, value |-> ""]
        write(sections) ==
            [exited |-> "return", sections |-> sections,
             value |-> Join([i \in 1..Len(sections) |-> section_text(sections[i])], "")]
        defaults(st, d) ==
            IF d.exited # "return" THEN failed
            ELSE write(IF d.options = <<>> THEN st.sections
                       ELSE <<[name |-> "DEFAULT", options |-> d.options]>> \o st.sections)
        finish(st) ==
            IF st.exited # "return" THEN failed
            ELSE defaults(st, set_options([options |-> <<>>, exited |-> "return"],
                                          st.default_values))
    IN IF p.kind = "str" THEN [exited |-> "return", sections |-> <<>>, value |-> p.text]
       ELSE finish(ini_loop([sections |-> <<>>, default_values |-> <<>>,
                             exited |-> "return"], p.items))

IniValues ==
    {Str("x"), Str("a%b"), <<"bool", "True">>, <<"bool", "False">>, PyNone,
     <<"list", "1", "2">>, <<"dict", "k", "v">>}

IniSubKeys == {"host", "Host", "ports"}

DistinctKeys(items) ==
    \A i, j \in 1..Len(items) : items[i].key = items[j].key => i = j

IniSubMappings ==
    {s \in SeqsUpTo([key : IniSubKeys, value : IniValues], MaxSubKeys) : DistinctKeys(s)}

IniItems ==
    {[key |-> "db", mapping |-> TRUE, value |-> PyNone, sub |-> s] : s \in IniSubMappings}
    \cup {[key |-> k, mapping |-> TRUE, value |-> PyNone, sub |-> s] :
            k \in {"cache", "DEFAULT"},
            s \in {<<>>, <<[key |-> "host", value |-> Str("x")]>>}}
    \cup {[key |-> "debug", mapping |-> FALSE, value |-> v, sub |-> <<>>] : v \in IniValues}

IniData ==
    {[kind |-> "str", text |-> "k = v\n", items |-> <<>>]}
    \cup {[kind |-> "mapping", text |-> "", items |-> s] :
            s \in {t \in SeqsUpTo(IniItems, MaxItems) : DistinctKeys(t)}}

INI_Init ==
    /\ params \in IniData
    /\ files = <<>>
    /\ env = [initial |-> <<>>]
    /\ scratch = FALSE
    /\ runs = <<>>
    /\ pc = "dump"
    /\ tmpfile = NoFile
    /\ local = [changed |-> FALSE]

INI_Dump ==
    /\ pc = "dump"
    /\ runs = <<>>
    /\ runs' = <<INIWriter_dump(params)>>
    /\ UNCHANGED <<params, env, files, scratch, pc, tmpfile, local>>

INI_Next == INI_Dump

SpecINI == INI_Init /\ [][INI_Next]_vars

\* ======================================================================
\* docker_common_config as a whole run: validation, then daemon.json.
\* params = [state, log_driver, log_level, storage_driver], Missing for a
\* parameter that was not supplied (None); files = [target, checksum] with
\* target = /etc/docker/daemon.json; env.plugin = what the engine answers
\* about the first plugin it lists.
\* ======================================================================
ALLOWED_VALUES ==
    [log_level |-> {"debug", "info", "warn", "error", "fatal"},
     log_driver |-> {"json-file", "syslog", "journald", "local", "loki"},
     storage_driver |-> {"overlay2", "aufs", "zfs", "btrfs", "devicemapper", "vfs",
                         "fuse-overlayfs"}]

\* the order of the keys of _ALLOWED_VALUES
AllowedOrder == <<"log_level", "log_driver", "storage_driver">>

\* bodsch.core validate(): the value when it is set, None otherwise
validate_value(value) == Truthy(value)

\* str.startswith("loki")
startswith_loki(s) == s \in {"loki", "loki:latest"}

\* __validate_loki_plugin: fail_json unless the listed plugin is enabled
validate_loki_plugin(e) ==
    IF e.plugin = "enabled" THEN "ok" ELSE "fail_json"

RECURSIVE validate_enumerations(_, _, _)
\* for param, allowed_values in self._ALLOWED_VALUES.items()
validate_enumerations(p, e, todo) ==
    IF todo = <<>> THEN "ok"
    ELSE IF p.log_driver = Missing THEN "exception"
    ELSE IF startswith_loki(p.log_driver)
    THEN IF validate_loki_plugin(e) = "ok"
         THEN validate_enumerations(p, e, Tail(todo))
         ELSE "fail_json"
    ELSE IF validate_value(p[Head(todo)]) /\ p[Head(todo)] \notin ALLOWED_VALUES[Head(todo)]
    THEN "fail_json"
    ELSE validate_enumerations(p, e, Tail(todo))

\* DockerCommonConfig.validate_config
validate_config(p, e) == validate_enumerations(p, e, AllowedOrder)

\* DockerCommonConfig.config_opts, after the validation: the set parameters
\* under their daemon.json keys, in the order of _PARAM_MAP
config_opts(p) ==
    (IF validate_value(p.log_driver)
     THEN <<[key |-> "log-driver", value |-> p.log_driver]>> ELSE <<>>)
    \o (IF validate_value(p.log_level)
        THEN <<[key |-> "log-level", value |-> p.log_level]>> ELSE <<>>)
    \o (IF validate_value(p.storage_driver)
        THEN <<[key |-> "storage-driver", value |-> p.storage_driver]>> ELSE <<>>)

\* DockerCommonConfig.run
DockerCommonConfigRun(fs, p, e) ==
    LET cleaned == IF fs["target"] = NoFile THEN [fs EXCEPT !["checksum"] = NoFile] ELSE fs
        data == write_json(config_opts(p))
        write(changed) ==
            [files  |-> IF changed THEN [cleaned EXCEPT !["target"] = data] ELSE cleaned,
             result |-> [changed |-> changed, failed |-> FALSE, exited |-> "exit_json"]]
        present(v) ==
            IF v # "ok"
            THEN [files  |-> cleaned,
                  result |-> [changed |-> FALSE, failed |-> TRUE, exited |-> v]]
            ELSE write(checksum_from_file(data) # checksum_from_file(cleaned["target"]))
    IN IF p.state = "absent" THEN daemon_absent(fs)
       ELSE present(validate_config(p, e))

DCC_Params ==
    [state : {"present", "absent"},
     log_driver : {Missing, "json-file", "fluentd", "loki", "loki:latest"},
     log_level : {Missing, "info", "trace"},
     storage_driver : {Missing, "overlay2", "zfs2"}]

DCC_Init ==
    /\ params \in DCC_Params
    /\ files \in [{"target", "checksum"} -> {NoFile, Foreign}]
    /\ env \in [plugin : {"enabled", "disabled", "none", "unreachable"}, initial : {files}]
    /\ scratch = FALSE
    /\ runs = <<>>
    /\ pc = "daemon"
    /\ tmpfile = NoFile
    /\ local = [changed |-> FALSE]

DCC_Run ==
    /\ Len(runs) < MaxRuns
    /\ \E r \in {DockerCommonConfigRun(files, params, env)} :
          /\ files' = r.files
          /\ runs' = Append(runs, r.result)
    /\ UNCHANGED <<params, env, scratch, pc, tmpfile, local>>

DCC_Next == DCC_Run

SpecDCC == DCC_Init /\ [][DCC_Next]_vars

\* ---------------------------------------------------------------- claims on SpecAW
PresentWrite == params.state = "present" /\ ~EmptyMeansRemove(params)

\* C3 - no partial writes: at every point of reconciling a present fragment
\* (a crash or a concurrent reader included) the target holds either its
\* complete previous content or the complete new content.
C3_NoPartialWrites ==
    PresentWrite => files["target"] \in {env.initial["target"], Serialize(params)}

\* C4 - reconciling a present fragment returns changed=true exactly when the
\* target was missing or differed from the newly serialized content, and the
\* target afterwards holds exactly the newly serialized content.
C4_ChangedIffDiffers ==
    (pc = "done" /\ PresentWrite) =>
        /\ runs[1].changed = (env.initial["target"] = NoFile
                              \/ env.initial["target"] # Serialize(params))
        /\ files["target"] = Serialize(params)

C4_Witness ==
    /\ pc = "done"
    /\ PresentWrite
    /\ env.initial["target"] = Foreign
    /\ runs[1].changed
    /\ files["target"] = Serialize(params)

\* C5 - a compose fragment declared absent (compose_files entity, compose_file
\* state=absent): a missing file gives changed=false and nothing is created,
\* an existing file gives changed=true and the file is gone afterwards.
C5_AbsentCompose ==
    (pc = "done" /\ params.state = "absent"
        /\ params.module \in {"compose_files", "compose_file"}) =>
        /\ runs[1].changed = (env.initial["target"] # NoFile)
        /\ files = [env.initial EXCEPT !["target"] = NoFile]

C5_Witness ==
    /\ pc = "done"
    /\ params.state = "absent"
    /\ params.module = "compose_files"
    /\ env.initial["target"] # NoFile
    /\ runs[1].changed
    /\ files["target"] = NoFile

\* C6 - docker_common_config with state=absent reports changed=true only when
\* daemon.json existed and was deleted, changed=false when there was none.
C6_DaemonAbsentChanged ==
    (pc = "done" /\ params.state = "absent" /\ params.module = "docker_common_config") =>
        runs[1].changed = (env.initial["target"] # NoFile)

\* C9 - removing an existing sub-file because its desired content is empty
\* reports changed=true: changed equals "the target previously existed".
C9_RemovalReportsChanged ==
    (pc = "done" /\ params.state = "present" /\ EmptyMeansRemove(params)) =>
        runs[1].changed = (env.initial["target"] # NoFile)

\* ---------------------------------------------------------------- claims on SpecCF
Last(s) == s[Len(s)]

Unchanged(entity_result) ==
    /\ ~entity_result.changed
    /\ \A i \in 1..Len(entity_result.msg) : ~entity_result.msg[i].changed

\* C1 - compose_files is idempotent: with names unique within each list, a
\* second run with the same input reports changed=false for the batch and for
\* every entity.
C1_ComposeFilesIdempotent ==
    (Len(runs) = 2 /\ runs[1].exited = "exit_json" /\ runs[2].exited = "exit_json") =>
        /\ ~runs[2].changed
        /\ Unchanged(runs[2].networks)
        /\ Unchanged(runs[2].services)
        /\ Unchanged(runs[2].volumes)

\* the entities of a run in the order the module takes them
AllEntities(p) ==
    [i \in 1..Len(p.networks) |-> [type |-> "networks", e |-> p.networks[i]]]
        \o [i \in 1..Len(p.services) |-> [type |-> "services", e |-> p.services[i]]]
        \o [i \in 1..Len(p.volumes) |-> [type |-> "volumes", e |-> p.volumes[i]]]

FailsToWrite(x) == x.e.state = "present" /\ x.e.name \in env.badnames

Desired(x) ==
    IF x.e.state = "absent" THEN NoFile
    ELSE yaml_dump(create_kw(x.type, <<x.e.name, x.e.payload>>))

Named(entities) == {i \in 1..Len(entities) : entities[i].name # ""}

\* C10 - per-entity failure isolation: when one entity fails, the remaining
\* entities of the batch are still reconciled and only the failing entity
\* gets a failed record.
C10_FailureIsolation ==
    Len(runs) >= 1 =>
        LET all == AllEntities(params)
            r == Last(runs)
        IN /\ \A i \in 1..Len(all) :
                  ((\A j \in (i + 1)..Len(all) : all[j].e.name # all[i].e.name)
                      /\ ~FailsToWrite(all[i]))
                  => files[all[i].e.name] = Desired(all[i])
           /\ Len(r.networks.msg) = Cardinality(Named(params.networks))
           /\ Len(r.services.msg) = Cardinality(Named(params.services))
           /\ Len(r.volumes.msg) = Cardinality(Named(params.volumes))

\* ---------------------------------------------------------------- claims on SpecCE
Distinct(s) == \A i, j \in 1..Len(s) : s[i] = s[j] => i = j

\* the file names one container makes the run write or remove
FileNamesOf(c) ==
    <<"container.env">>
        \o [i \in 1..Len(c.property_files) |-> c.property_files[i].name]
        \o (IF c.properties # <<>> \/ c.property_files # <<>>
            THEN <<PropertyFilename(c.name)>> ELSE <<>>)
        \o [i \in 1..Len(c.config_files) |-> c.config_files[i].name]

NoFileDeclaredTwice ==
    \A i \in 1..Len(params.container) : Distinct(FileNamesOf(params.container[i]))

SecondRunQuiet ==
    /\ ~Last(runs').changed
    /\ files' = files
    /\ \A i \in 1..Len(Last(runs').recreate) : ~Last(runs').recreate[i]

\* C2 - container_environments is idempotent: with unique container names, a
\* second run with the same input reports changed=false, changes no file and
\* marks no container with recreate=True.
C2_EnvironmentsIdempotent ==
    [][(Len(runs) = 1 /\ Len(runs') = 2) => SecondRunQuiet]_vars

\* the second run is quiet whenever no container names one file twice: only a
\* path written or removed twice within one run keeps changing
EnvironmentsIdempotentDistinctFiles ==
    [][(Len(runs) = 1 /\ Len(runs') = 2 /\ NoFileDeclaredTwice) => SecondRunQuiet]_vars

\* C7 - a container whose environments mapping is empty or not given ends the
\* run with no container.env: an existing one is removed, none is created.
C7_EmptyEnvironmentsNoFile ==
    (Len(runs) >= 1 /\ Last(runs).exited = "exit_json") =>
        \A i \in 1..Len(params.container) :
            params.container[i].environments = <<>>
                => files[<<params.container[i].name, "container.env">>] = NoFile

\* C8 - a container whose properties mapping is empty, with or without
\* property_files, ends the run with no <name>.properties file.
C8_EmptyPropertiesNoFile ==
    (Len(runs) >= 1 /\ Last(runs).exited = "exit_json") =>
        \A i \in 1..Len(params.container) :
            params.container[i].properties = <<>>
                => files[<<params.container[i].name,
                           PropertyFilename(params.container[i].name)>>] = NoFile

\* ---------------------------------------------------------------- claims on SpecBatch
\* the per-entity records a returned batch result carries
EntityRecords(r) ==
    IF "networks" \in DOMAIN r
    THEN r.networks.msg \o r.services.msg \o r.volumes.msg
    ELSE r.msg

\* C11 - the overall changed of a batch result is the OR of the per-entity
\* changed values and the overall failed is the OR of the per-entity failed
\* values (for container_environments also: changed is the OR of the
\* containers marked in this run).
C11_Aggregation ==
    \A i \in 1..Len(runs) :
        runs[i].exited = "exit_json" =>
            /\ runs[i].changed =
                  (\E k \in 1..Len(EntityRecords(runs[i])) : EntityRecords(runs[i])[k].changed)
            /\ runs[i].failed =
                  (\E k \in 1..Len(EntityRecords(runs[i])) : EntityRecords(runs[i])[k].failed)
            /\ "recreate" \in DOMAIN runs[i] =>
                  runs[i].changed = (\E k \in 1..Len(runs[i].recreate) : runs[i].recreate[k])

C11_Witness ==
    /\ Len(runs) >= 1
    /\ "configs" \in DOMAIN params
    /\ runs[1].exited = "exit_json"
    /\ Len(runs[1].msg) = 2
    /\ runs[1].msg[1].changed /\ ~runs[1].msg[1].failed
    /\ runs[1].msg[2].failed /\ ~runs[1].msg[2].changed
    /\ runs[1].changed /\ runs[1].failed

\* the paths an entity without a name would resolve to
NamelessPaths ==
    IF "networks" \in DOMAIN params THEN {""}
    ELSE {path \in DOMAIN files : path[1] = ""}

HasNameless ==
    IF "networks" \in DOMAIN params
    THEN \E t \in ComposeTypes : \E i \in 1..Len(params[t]) : params[t][i].name = ""
    ELSE IF "container" \in DOMAIN params
    THEN \E i \in 1..Len(params.container) : params.container[i].name = ""
    ELSE \E i \in 1..Len(params.configs) : params.configs[i].location = ""

\* C12 - an entity without a name is skipped entirely: after a run nothing
\* was created, changed or removed for it, in compose_files, in
\* container_environments and in docker_client_configs (no location).
C12_NamelessSkipped ==
    (Len(runs) >= 1 /\ HasNameless) =>
        \A path \in NamelessPaths : files[path] = env.initial[path]

\* ---------------------------------------------------------------- more claims on SpecCE
\* a data file of container c differs before and after the step
FilesChanged(c) ==
    \E f \in CE_FileNames(c.name) : files'[<<c.name, f>>] # files[<<c.name, f>>]

\* C13 - a container entry of the returned container_data carries
\* recreate=True if and only if at least one of its environment, property or
\* config files changed during this run (a container that names one file
\* twice may change it and change it back: for it only "if" is required).
C13_RecreateIffChanged ==
    [][(Len(runs') = Len(runs) + 1 /\ Last(runs').exited = "exit_json") =>
        \A i \in 1..Len(params.container) :
            /\ FilesChanged(params.container[i]) => Last(runs').recreate[i]
            /\ (Distinct(FileNamesOf(params.container[i])) /\ Last(runs').recreate[i])
                  => FilesChanged(params.container[i])]_vars

\* C14 - a config_files entry whose type is none of yaml, yml, json, toml, ini
\* is always reported as an error, whatever its data: the run does not
\* complete normally and the file of the entry is neither written nor removed.
C14_UnknownTypeIsError ==
    Len(runs) >= 1 =>
        \A i \in 1..Len(params.container) :
            \A k \in 1..Len(params.container[i].config_files) :
                LET c == params.container[i]
                    cfg == c.config_files[k]
                IN resolve_writer(cfg.type) = "ValueError" =>
                      /\ Last(runs).exited = "exception"
                      /\ files[<<c.name, cfg.name>>] = env.initial[<<c.name, cfg.name>>]

\* ---------------------------------------------------------------- claims on SpecRF
Migrated == params.filter = "registry_migrate" /\ runs # <<>>
Combined == params.filter = "combine_registries" /\ runs # <<>>

Parseable(v) == Version(v) # <<"InvalidVersion">>
AtLeast3(v) == Parseable(v) /\ VersionGe(Version(v), <<3, 0>>)
Below3(v) == Parseable(v) /\ ~VersionGe(Version(v), <<3, 0>>)

\* addrs = [addr]
AddrsOf(addr) == [k \in {"addrs"} |-> <<"list", addr[2]>>]

\* a key counts as given when it holds a non-empty value
AddrGiven(data) == "addr" \in DOMAIN data /\ data["addr"] # Str("")
AddrsGiven(data) == "addrs" \in DOMAIN data /\ data["addrs"] # <<"list">>

\* C15 - registry_migrate: with a version >= 3.0 and addr but no addrs the
\* result has addrs=[addr] and no addr key; with a version below 3.0, or when
\* addrs is already present, the result equals the input mapping.
C15_RegistryMigrate ==
    Migrated =>
        LET data == params.data.value
            v == params.version
        IN /\ (AtLeast3(v) /\ AddrGiven(data) /\ ~AddrsGiven(data)) =>
                  /\ runs[1].exited = "return"
                  /\ runs[1].value = Merged(Popped(data, "addr"), AddrsOf(data["addr"]))
           /\ (Below3(v) \/ (Parseable(v) /\ AddrsGiven(data))) =>
                  /\ runs[1].exited = "return"
                  /\ runs[1].value = data

\* C15 as amended - with a version >= 3.0 and a non-empty addr the result has
\* no addr key, and addrs=[addr] unless the input had a non-empty addrs, which
\* is kept; with a version below 3.0 or none, or with addr missing or empty, the
\* result equals the input mapping.
C15_RegistryMigrateDropsAddr ==
    Migrated =>
        LET data == params.data.value
            v == params.version
            addr_given == AddrGiven(data)
            addrs_given == AddrsGiven(data)
        IN /\ (AtLeast3(v) /\ addr_given /\ ~addrs_given) =>
                  /\ runs[1].exited = "return"
                  /\ runs[1].value = Merged(Popped(data, "addr"), AddrsOf(data["addr"]))
           /\ (AtLeast3(v) /\ addr_given /\ addrs_given) =>
                  /\ runs[1].exited = "return"
                  /\ runs[1].value = Popped(data, "addr")
           /\ (Below3(v) \/ v = "" \/ (Parseable(v) /\ ~addr_given)) =>
                  /\ runs[1].exited = "return"
                  /\ runs[1].value = data

C15_Witness ==
    /\ Migrated
    /\ params.version = "3.0"
    /\ DOMAIN params.data.value = {"addr", "addrs", "db"}
    /\ params.data.value["addr"] = Str("redis:6379")
    /\ params.data.value["addrs"] = <<"list", "cache:6379">>
    /\ DOMAIN runs[1].value = {"addrs", "db"}

\* C16 - registry_migrate called with a version string that cannot be parsed
\* does not fail: the mapping is returned unchanged.
C16_UnparseableVersion ==
    (Migrated /\ params.version # "" /\ ~Parseable(params.version)) =>
        /\ runs[1].exited = "return"
        /\ runs[1].value = params.data.value

\* the values the merge is said to strip: None, "", false, empty collections
Empty(v) == v \in {PyNone, Str(""), <<"bool", "False">>, <<"list">>, <<"dict">>}

\* the defaults overlaid by one override, without the keys holding an empty value
Overlaid(defaults, override) ==
    LET all == [k \in DOMAIN defaults \cup DOMAIN override |->
                   IF k \in DOMAIN override THEN override[k] ELSE defaults[k]]
    IN [k \in {x \in DOMAIN all : ~Empty(all[x])} |-> all[k]]

\* C17 - every mapping returned by combine_registries contains no key whose
\* merged value is None, the empty string, false or an empty collection.
C17_MergeStripping ==
    (Combined /\ runs[1].exited = "return") =>
        \A i \in 1..Len(runs[1].value) :
            \A k \in DOMAIN runs[1].value[i] : ~Empty(runs[1].value[i][k])

\* C18 - for a list of n override mappings combine_registries returns exactly
\* n merged mappings in input order, the i-th being the defaults overlaid by
\* the i-th override only.
C18_FreshDefaultsPerOverride ==
    (Combined /\ params.data.kind = "list" /\ params.defaults # <<>>) =>
        /\ runs[1].exited = "return"
        /\ Len(runs[1].value) = Len(params.data.entries)
        /\ \A i \in 1..Len(params.data.entries) :
              i \in DOMAIN runs[1].value =>
                  runs[1].value[i] = Overlaid(params.defaults[1], params.data.entries[i])

\* C19 - for a single override mapping combine_registries returns a list
\* holding exactly one mapping: the defaults overlaid by the override, falsy
\* values removed.
C19_SingleOverride ==
    (Combined /\ params.data.kind = "dict" /\ params.defaults # <<>>) =>
        /\ runs[1].exited = "return"
        /\ runs[1].value = <<Overlaid(params.defaults[1], params.data.value)>>

\* ---------------------------------------------------------------- claims on SpecDC
\* what a registry entry may define: nothing, only auth, or both username
\* and password without auth
Acceptable(creds) ==
    \/ ~Truthy(creds.auth) /\ ~Truthy(creds.username) /\ ~Truthy(creds.password)
    \/ Truthy(creds.auth) /\ ~Truthy(creds.username) /\ ~Truthy(creds.password)
    \/ ~Truthy(creds.auth) /\ Truthy(creds.username) /\ Truthy(creds.password)

\* configuration i is written by this run and no other configuration shares its file
WrittenAlone(i) ==
    /\ params.configs[i].location # ""
    /\ params.configs[i].state = "present"
    /\ params.configs[i].enabled
    /\ \A j \in 1..Len(params.configs) :
          j # i => params.configs[j].location # params.configs[i].location

\* C20 - a registry entry that combines auth with a username or a password,
\* or that gives only one of username and password, is reported as invalid:
\* its configuration is marked failed and its destination file is not written.
C20_InvalidAuthRejected ==
    (Len(runs) >= 1 /\ Last(runs).exited = "exit_json") =>
        \A i \in 1..Len(params.configs) :
            (WrittenAlone(i)
             /\ \E k \in 1..Len(params.configs[i].auths) :
                    ~Acceptable(params.configs[i].auths[k].creds)) =>
                /\ \E m \in 1..Len(Last(runs).msg) :
                      /\ Last(runs).msg[m].location = params.configs[i].location
                      /\ Last(runs).msg[m].failed
                /\ files[<<params.configs[i].location>>]
                      = env.initial[<<params.configs[i].location>>]

\* every registry entry of configuration i passes _validate_auth
AllAccepted(i) ==
    \A k \in 1..Len(params.configs[i].auths) :
        validate_auth(params.configs[i].auths[k].creds).valid

\* the auth the written configuration is to hold for these credentials
ExpectedAuth(creds, written) ==
    IF Truthy(creds.auth) THEN creds.auth
    ELSE IF Truthy(creds.username) /\ Truthy(creds.password)
    THEN standard_b64encode(creds.username, creds.password)
    ELSE written

\* C21 - for every registry entry that passes validation, the written
\* configuration holds under auths[registry].auth the supplied auth string
\* when a non-empty auth is given and base64(username:password) otherwise,
\* and building the value never raises.
C21_AuthEncoded ==
    Len(runs) >= 1 =>
        /\ Last(runs).exited # "exception"
        /\ Last(runs).exited = "exit_json" =>
              \A i \in 1..Len(params.configs) :
                  (WrittenAlone(i) /\ AllAccepted(i)) =>
                      LET written == files[<<params.configs[i].location>>][3]
                      IN \A k \in 1..Len(params.configs[i].auths) :
                            written[k].auth
                                = ExpectedAuth(params.configs[i].auths[k].creds,
                                               written[k].auth)

\* ---------------------------------------------------------------- more claims on SpecAW
\* C22 - compose_file with state test performs no action: no file is
\* created, changed or removed, and the result reports changed=false and
\* no failure.
C22_TestIsNoOp ==
    (params.module = "compose_file" /\ params.state = "test" /\ pc = "done") =>
        /\ files = env.initial
        /\ ~scratch
        /\ ~Last(runs).changed
        /\ ~Last(runs).failed

\* ---------------------------------------------------------------- more claims on SpecBatch
\* C23 - scratch cleanup: when a module invocation has ended, however it
\* ended, the scratch directory it created no longer exists.
C23_ScratchRemoved ==
    Len(runs) >= 1 => ~scratch

\* ---------------------------------------------------------------- claims on SpecDP
\* C24 - docker_plugins with state present is idempotent: when the alias is
\* already installed and enabled in the requested version, the run reports
\* changed=false and leaves the plugin as it is; and the run that follows a
\* successful install reports changed=false.
C24_PluginsIdempotent ==
    params.state = "present" =>
        /\ (Len(runs) >= 1 /\ env.initial.plugins[params.plugin_version] = "enabled") =>
              /\ ~runs[1].changed
              /\ files.plugins[params.plugin_version] = "enabled"
        /\ (Len(runs) = 2 /\ runs[1].changed /\ ~runs[1].failed) => ~runs[2].changed

\* ---------------------------------------------------------------- claims on SpecFB
\* the containers of data whose value for key is among values, in their order
Selected(data, key, values) ==
    SelectSeq(data, LAMBDA c : c[key] # Missing /\ c[key] \in values)

\* C25 - container_filter_by(data, key, values) with key name, hostname or
\* image returns exactly the containers of data whose value for key is in
\* values, in their original order; with any other key it returns data
\* unchanged.
C25_FilterBy ==
    runs # <<>> =>
        runs[1].value = IF params.filter_by \in {"name", "hostname", "image"}
                        THEN Selected(params.data, params.filter_by, params.filter_values)
                        ELSE params.data

\* a filter that keeps a container standing behind two excluded ones
C25_Witness ==
    /\ runs # <<>>
    /\ params.filter_by = "name"
    /\ Len(params.data) = 3
    /\ Len(runs[1].value) = 1
    /\ runs[1].value[1] = params.data[3]

\* ---------------------------------------------------------------- claims on SpecINI
\* how a value is to appear in the file: true/false in lower case, None as
\* the empty string, lists and nested mappings as their JSON text
Rendered(value) ==
    CASE value = <<"bool", "True">> -> "true"
      [] value = <<"bool", "False">> -> "false"
      [] value = PyNone -> ""
      [] value[1] \in {"list", "dict"} -> json_dumps(value)
      [] OTHER -> value[2]

IniExample ==
    <<[key |-> "db", mapping |-> TRUE, value |-> PyNone,
       sub |-> <<[key |-> "host", value |-> Str("x")],
                 [key |-> "ports", value |-> <<"list", "1", "2">>]>>]>>

\* C26 - INIWriter.dump turns every top-level key whose value is a mapping
\* into a section holding its sub-keys and collects every other top-level
\* key into the default section, the values rendered as true/false, the
\* empty string for None, and JSON text for lists and nested mappings;
\* {db: {host: x, ports: [1, 2]}} gives [db] with host = x and ports = [1, 2].
C26_IniDump ==
    (runs # <<>> /\ params.kind = "mapping") =>
        /\ runs[1].exited = "return"
        /\ \A i \in 1..Len(params.items) :
              LET item == params.items[i]
              IN IF item.mapping
                 THEN \E s \in 1..Len(runs[1].sections) :
                         /\ runs[1].sections[s].name = item.key
                         /\ runs[1].sections[s].options
                               = [k \in 1..Len(item.sub) |->
                                     [key |-> item.sub[k].key,
                                      value |-> Rendered(item.sub[k].value)]]
                 ELSE \E s \in 1..Len(runs[1].sections) :
                         /\ runs[1].sections[s].name = "DEFAULT"
                         /\ \E o \in 1..Len(runs[1].sections[s].options) :
                               runs[1].sections[s].options[o]
                                   = [key |-> item.key, value |-> Rendered(item.value)]
        /\ params.items = IniExample =>
              runs[1].value = "[db]\nhost = x\nports = [1, 2]\n\n"

\* ---------------------------------------------------------------- more claims on SpecCF
\* C27 - after compose_files has completed, every entity declared with state
\* present and a non-empty name has its fragment <name>.conf holding exactly
\* its own payload under its own type key, whatever other entities are in
\* the input, an entity of another type with the same name included.
C27_PresentFragments ==
    (Len(runs) >= 1 /\ Last(runs).exited = "exit_json") =>
        LET all == AllEntities(params)
        IN \A i \in 1..Len(all) :
              (all[i].e.state = "present" /\ all[i].e.name # "") =>
                  files[all[i].e.name] = Desired(all[i])

\* ---------------------------------------------------------------- claims on SpecDCC
\* a value that is not supplied or is in the allowed list of its parameter
Allowed(param) ==
    params[param] = Missing \/ params[param] \in ALLOWED_VALUES[param]

\* C28 - docker_common_config with state present and no log_driver passes
\* the validation and writes the configuration without raising.
C28_NoLogDriver ==
    (Len(runs) >= 1 /\ params.state = "present" /\ params.log_driver = Missing
        /\ Allowed("log_level") /\ Allowed("storage_driver")) =>
        /\ Last(runs).exited = "exit_json"
        /\ ~Last(runs).failed
        /\ files["target"] = write_json(config_opts(params))

\* C29 - a log_level or storage_driver outside its allowed list is rejected
\* before daemon.json is written, whatever log_driver is, the loki plugin
\* included.
C29_EnumerationsRejected ==
    (Len(runs) >= 1 /\ params.state = "present"
        /\ (~Allowed("log_level") \/ ~Allowed("storage_driver"))) =>
        /\ Last(runs).failed
        /\ files["target"] = env.initial["target"]

\* ---------------------------------------------------------------- more claims on SpecRF
\* C30 - RegistryFilters.combine_registries called with an empty defaults
\* list fails with its own AnsibleFilterError, whatever the shape of data,
\* and with no other exception.
C30_EmptyDefaultsError ==
    (Combined /\ params.impl = "RegistryFilters" /\ params.defaults = <<>>) =>
        runs[1].exited = "AnsibleFilterError"

====
